---- MODULE Spec2Model ----
(***************************************************************************)
(* The user session store of src/scripts/watchFileChanges.js (class        *)
(* UserStore and its private helpers), together with the part of the       *)
(* backend collaborator userDb that the store talks to: the current-user   *)
(* feed, pending createUser requests and per-id listenToUser               *)
(* subscriptions; and the debounced fs.watch listener of watchDir at the   *)
(* top of the same file, with its timers and a clock.                      *)
(*                                                                         *)
(* JavaScript values that may be null/undefined are modelled as sequences  *)
(* of length 0 (None) or 1 (Some(v)); user ids are strings and NULL is the *)
(* null id.                                                                *)
(***************************************************************************)
EXTENDS Naturals, Sequences, FiniteSets, TLC

\* ---------------------------------------------------------------- bounds
MaxHooks == 2       \* callbacks registered per hook list
MaxPending == 1     \* createUser requests in flight at the backend
MaxTime == 400      \* the watcher's clock stops here (ms)
MaxTimers == 2      \* debounce timers pending at once

\* setTimeout(..., 200): the debounce delay of the file watcher, in ms.
DebounceMs == 200

\* ---------------------------------------------------------------- values
NULL == "null"
None == <<>>
Some(v) == <<v>>
Val(o) == o[1]

Ids == {"u1", "u2"}
EmailOf(i) == i \o "@x.com"
\* u1's profile is delivered without a displayName, u2's with one.
DisplayNameOf(i) == IF i = "u1" THEN NULL ELSE "nick"

\* A public profile as the backend delivers it: no id, no save capability.
RawProfiles(i) ==
  {[email |-> EmailOf(i), isOnline |-> o, displayName |-> DisplayNameOf(i),
    id |-> NULL, save |-> FALSE] : o \in BOOLEAN}

PrivateOf(i) == [owner |-> i, tier |-> "private"]
ServerOf(i) == [owner |-> i, tier |-> "server"]

\* userDataByPrivacy: {id, publicInfo, privateInfo, serverInfo}
Payloads ==
  UNION {{[id |-> i, publicInfo |-> p, privateInfo |-> q, serverInfo |-> s] :
            p \in {None} \cup {Some(r) : r \in RawProfiles(i)},
            q \in {None, Some(PrivateOf(i))},
            s \in {None, Some(ServerOf(i))}} : i \in Ids}

\* createUser's first argument; NULL stands for a missing field.
Credentials ==
  {None} \cup {Some([email |-> e, password |-> p]) :
                 e \in {NULL, "", "a@x.com"}, p \in {NULL, "", "pw"}}

BackendErrors == {Some([message |-> "backend failure"])}

ValidationError == [message |-> "You must provide an email and password"]

\* ---------------------------------------------------------------- state
VARIABLES
  userId,             \* UserStore.userId
  usersMap,           \* UserStore.usersMap, entries in insertion order
  privateInfo,        \* UserStore.privateInfo
  serverInfo,         \* UserStore.serverInfo
  _onLoginTriggers,   \* callbacks registered through onLogin
  _onLogoutTriggers,  \* callbacks registered through onLogout
  listening,          \* the current-user feed subscription exists
  createPending,      \* userDb.createUser requests not yet answered
  listeners,          \* ids with a userDb.listenToUser subscription
  delivered,          \* ids for which a listenToUser subscription delivered a profile
  feedHist,           \* what the feed has delivered so far (observer)
  ev,                 \* the operation of the last step and its input (observer)
  hookCalls,          \* hook invocations made by the last step, in order
  dbCalls,            \* backend requests issued by the last step, in order
  cbCalls,            \* caller-callback invocations made by the last step
  ret,                \* value returned by the last step
  fsTimeout,          \* the watcher's fsTimeout: NULL or a timer handle
  lastFileChanged,    \* the watcher's lastFileChanged
  timers,             \* expiry times of the setTimeout timers not yet fired
  now,                \* the clock, in ms
  handled,            \* handleFileEvent calls made by the last step
  watchHist           \* per path, what the watcher has seen so far (observer)

storeVars == <<userId, usersMap, privateInfo, serverInfo>>
hookVars == <<_onLoginTriggers, _onLogoutTriggers>>
dbVars == <<listening, createPending, listeners, delivered>>
obsVars == <<ev, hookCalls, dbCalls, cbCalls, ret>>
\* ev.op comes first: two steps of different operations differ there, and the
\* inputs of one operation are values of one kind.
watchVars == <<fsTimeout, lastFileChanged, timers, now, handled, watchHist>>
vars == <<ev.op, storeVars, hookVars, dbVars, feedHist, obsVars, watchVars>>

\* ------------------------------------------------------------ the Map
MapHas(m, k) == \E i \in 1..Len(m) : m[i].key = k

MapGet(m, k) ==
  IF MapHas(m, k)
  THEN Some(m[CHOOSE i \in 1..Len(m) : m[i].key = k].value)
  ELSE None

\* Map.prototype.set: an existing key keeps its position.
MapSet(m, k, v) ==
  IF MapHas(m, k)
  THEN [i \in 1..Len(m) |-> IF m[i].key = k THEN [key |-> k, value |-> v] ELSE m[i]]
  ELSE Append(m, [key |-> k, value |-> v])

\* ---------------------------------------------------------- the store
Store ==
  [userId |-> userId, usersMap |-> usersMap,
   privateInfo |-> privateInfo, serverInfo |-> serverInfo]

SetStore(st) ==
  /\ userId' = st.userId
  /\ usersMap' = st.usersMap
  /\ privateInfo' = st.privateInfo
  /\ serverInfo' = st.serverInfo

\* get user()
User(st) == MapGet(st.usersMap, st.userId)

\* get fullUser()
FullUser(st) ==
  [id |-> st.userId, public |-> User(st),
   private |-> st.privateInfo, server |-> st.serverInfo]

\* Normalize keeping a delivered displayName and defaulting to the email only
\* when there is none.
NormalizeKeepingDisplayName(uid, user) ==
  [user EXCEPT !.displayName = IF @ # NULL THEN @ ELSE user.email,
               !.save = TRUE, !.id = uid]

\* _savePublicUserInfo(userId, user): user is None for a null delivery.
Normalize(uid, user) ==
  [user EXCEPT !.displayName = user.email, !.save = TRUE, !.id = uid]

SavePublicUserInfo(m, uid, user) ==
  IF user = None THEN m ELSE MapSet(m, uid, Normalize(uid, Val(user)))

\* SavePublicPart with the isOnline test forgotten.
SavePublicPartAnyStatus(st, data) ==
  IF data.publicInfo # None
  THEN [st EXCEPT
          !.usersMap = SavePublicUserInfo(@, data.id, data.publicInfo),
          !.userId = data.id]
  ELSE st

\* SavePublicPart with the profile left out of the cache.
SavePublicPartUserIdOnly(st, data) ==
  IF data.publicInfo # None /\ Val(data.publicInfo).isOnline
  THEN [st EXCEPT !.userId = data.id]
  ELSE st

\* _saveCurrentUserLocally(userDataByPrivacy)
SavePublicPart(st, data) ==
  IF data.publicInfo # None
  THEN [st EXCEPT
          !.usersMap = SavePublicUserInfo(@, data.id, data.publicInfo),
          !.userId = IF Val(data.publicInfo).isOnline THEN data.id ELSE @]
  ELSE st

\* SavePrivatePart assigning whatever the payload holds, absent or not.
SavePrivatePartAlways(st, data) == [st EXCEPT !.privateInfo = data.privateInfo]

SavePrivatePart(st, data) ==
  IF data.privateInfo # None THEN [st EXCEPT !.privateInfo = data.privateInfo] ELSE st

SaveServerPart(st, data) ==
  IF data.serverInfo # None THEN [st EXCEPT !.serverInfo = data.serverInfo] ELSE st

SaveCurrentUserLocally(st, data) ==
  SaveServerPart(SavePrivatePart(SavePublicPart(st, data), data), data)


\* ------------------------------------------------------------- hooks
Min(S) == CHOOSE x \in S : \A y \in S : x <= y

\* RunTriggers walking the list from its last callback to its first.
RunTriggersReversed(hook, triggers, user, throwers) ==
  LET n == Len(triggers)
      bad == {i \in 1..n : triggers[n + 1 - i] \in throwers}
      stop == IF bad = {} THEN n ELSE Min(bad)
  IN [i \in 1..stop |->
        [hook |-> hook, cb |-> triggers[n + 1 - i], arg |-> user,
         threw |-> triggers[n + 1 - i] \in throwers]]

\* The i-th callback registered on a list is named i.
NewCallback(triggers) == Len(triggers) + 1

\* triggers.forEach(event => event(user)) inside one try block: the first
\* callback that throws ends the loop. throwers: the callbacks that throw
\* when called with this argument.
RunTriggers(hook, triggers, user, throwers) ==
  LET bad == {i \in 1..Len(triggers) : triggers[i] \in throwers}
      stop == IF bad = {} THEN Len(triggers) ELSE Min(bad)
  IN [i \in 1..stop |->
        [hook |-> hook, cb |-> triggers[i], arg |-> user,
         threw |-> triggers[i] \in throwers]]

\* _handleUserLogout()
HandleUserLogout(st, triggers, throwers) ==
  RunTriggers("onLogout", triggers, FullUser(st), throwers)

\* _handleUserEstablished(user)
HandleUserEstablished(triggers, user, throwers) ==
  RunTriggers("onLogin", triggers, user, throwers)

\* let shouldExecEstablished = !userStore.user && userData.publicInfo
ShouldExecEstablished(st, data) == User(st) = None /\ data.publicInfo # None

\* {id: userData.publicInfo.id, publicInfo: userData.publicInfo}, read after
\* _savePublicUserInfo has written id, displayName and save into the object.
EstablishedArg(data) ==
  LET p == Normalize(data.id, Val(data.publicInfo))
  IN [id |-> p.id, publicInfo |-> p]

\* The callbacks a dispatch over triggers may see throw.
Throwers(triggers) == SUBSET {triggers[i] : i \in 1..Len(triggers)}

\* ------------------------------------------------------- credentials
Falsy(s) == s \in {NULL, ""}

\* InvalidCredentials with the password test forgotten.
InvalidCredentialsEmailOnly(user) ==
  user = None \/ Falsy(Val(user).email)

\* !user || !user.email || !user.password
InvalidCredentials(user) ==
  user = None \/ Falsy(Val(user).email) \/ Falsy(Val(user).password)

\* ------------------------------------------------------- file watcher
\* path.join(dir, filename) for files of two of the WATCHED_DIRECTORIES.
FilePaths == {"stores/a.js", "db/b.js"}

EventTypes == {"change", "rename"}

\* The clock moves on by one of these amounts (ms).
Delays == {50, 100}

\* Per path: when its last handled event was handled (None before the first)
\* and whether every event since then was for that same path.
NoWatch == [p \in FilePaths |-> [handledAt |-> None, undisturbed |-> FALSE]]

\* !fsTimeout || lastFileChanged !== filePath
ShouldHandle(timeout, last, filePath) == timeout = NULL \/ last # filePath

\* -------------------------------------------------------------- Init
NoFeed == [lastPublic |-> "none", absentAfterPublic |-> FALSE, onlineSinceAbsent |-> FALSE]

Init ==
  /\ userId = NULL
  /\ usersMap = <<>>
  /\ privateInfo = None
  /\ serverInfo = None
  /\ _onLoginTriggers = <<>>
  /\ _onLogoutTriggers = <<>>
  /\ listening = FALSE
  /\ createPending = 0
  /\ listeners = {}
  /\ delivered = {}
  /\ feedHist = NoFeed
  /\ ev = [op |-> "new", arg |-> None]
  /\ hookCalls = <<>>
  /\ dbCalls = <<>>
  /\ cbCalls = <<>>
  /\ ret = None
  /\ fsTimeout = NULL
  /\ lastFileChanged = NULL
  /\ timers = <<>>
  /\ now = 0
  /\ handled = <<>>
  /\ watchHist = NoWatch

\* What every step of the store records about itself; the file watcher is
\* another part of the script and no step of the store touches it.
Observe(op, arg, hooks, db, cbs, r) ==
  /\ UNCHANGED watchVars
  /\ ev' = [op |-> op, arg |-> arg]
  /\ hookCalls' = hooks
  /\ dbCalls' = db
  /\ cbCalls' = cbs
  /\ ret' = r

\* ----------------------------------------------------------- actions
\* init(): _listenToCurrentUser() subscribes to the current-user feed.
StoreInit ==
  /\ ~listening
  /\ listening' = TRUE
  /\ Observe("init", None, <<>>, <<[fn |-> "listenToCurrentUser", arg |-> None]>>, <<>>, None)
  /\ UNCHANGED <<storeVars, hookVars, createPending, listeners, delivered, feedHist>>

OnLogin ==
  /\ Len(_onLoginTriggers) < MaxHooks
  /\ _onLoginTriggers' = Append(_onLoginTriggers, NewCallback(_onLoginTriggers))
  /\ Observe("onLogin", None, <<>>, <<>>, <<>>, None)
  /\ UNCHANGED <<storeVars, _onLogoutTriggers, dbVars, feedHist>>

OnLogout ==
  /\ Len(_onLogoutTriggers) < MaxHooks
  /\ _onLogoutTriggers' = Append(_onLogoutTriggers, NewCallback(_onLogoutTriggers))
  /\ Observe("onLogout", None, <<>>, <<>>, <<>>, None)
  /\ UNCHANGED <<storeVars, _onLoginTriggers, dbVars, feedHist>>

\* FeedError without its return: the error event handled as an absence signal.
FeedErrorAsAbsent ==
  /\ listening
  /\ userId' = NULL
  /\ Observe("feedError", None,
             IF userId # NULL THEN HandleUserLogout(Store, _onLogoutTriggers, {}) ELSE <<>>,
             <<>>, <<>>, None)
  /\ UNCHANGED <<usersMap, privateInfo, serverInfo, hookVars, dbVars, feedHist>>

\* The feed callback with err set.
FeedError ==
  /\ listening
  /\ Observe("feedError", None, <<>>, <<>>, <<>>, None)
  /\ UNCHANGED <<storeVars, hookVars, dbVars, feedHist>>

\* FeedAbsentOp without the try block of _handleUserLogout: a callback's
\* exception leaves the feed callback before userId is cleared.
FeedAbsentOpUncaught ==
  /\ listening
  /\ IF userId # NULL
     THEN \E throwers \in Throwers(_onLogoutTriggers) :
            LET calls == HandleUserLogout(Store, _onLogoutTriggers, throwers)
            IN /\ Observe("feedAbsent", None, calls, <<>>, <<>>, None)
               /\ userId' = IF \E i \in 1..Len(calls) : calls[i].threw THEN userId ELSE NULL
     ELSE /\ Observe("feedAbsent", None, <<>>, <<>>, <<>>, None)
          /\ userId' = NULL
  /\ UNCHANGED <<usersMap, privateInfo, serverInfo, hookVars, dbVars>>

\* The feed callback with no err and no userData.
FeedAbsentOp ==
  /\ listening
  /\ userId' = NULL
  /\ IF userId # NULL
     THEN \E throwers \in Throwers(_onLogoutTriggers) :
            Observe("feedAbsent", None,
                    HandleUserLogout(Store, _onLogoutTriggers, throwers),
                    <<>>, <<>>, None)
     ELSE Observe("feedAbsent", None, <<>>, <<>>, <<>>, None)
  /\ UNCHANGED <<usersMap, privateInfo, serverInfo, hookVars, dbVars>>

\* The feed callback with userData.
FeedDataOp(data) ==
  /\ listening
  /\ SetStore(SaveCurrentUserLocally(Store, data))
  /\ IF ShouldExecEstablished(Store, data)
     THEN \E throwers \in Throwers(_onLoginTriggers) :
            Observe("feedData", Some(data),
                    HandleUserEstablished(_onLoginTriggers, EstablishedArg(data), throwers),
                    <<>>, <<>>, None)
     ELSE Observe("feedData", Some(data), <<>>, <<>>, <<>>, None)
  /\ UNCHANGED <<hookVars, dbVars>>

FeedAbsent == FeedAbsentOp /\ UNCHANGED feedHist

FeedData(data) == FeedDataOp(data) /\ UNCHANGED feedHist

\* The same two steps with the history of the feed recorded.
FeedAbsentTracked ==
  /\ FeedAbsentOp
  /\ feedHist' = [feedHist EXCEPT !.absentAfterPublic = TRUE, !.onlineSinceAbsent = FALSE]

FeedDataTracked(data) ==
  /\ FeedDataOp(data)
  /\ feedHist' =
       IF data.publicInfo = None THEN feedHist
       ELSE [lastPublic |-> IF Val(data.publicInfo).isOnline THEN "online" ELSE "offline",
             absentAfterPublic |-> FALSE,
             onlineSinceAbsent |-> feedHist.onlineSinceAbsent \/ Val(data.publicInfo).isOnline]

\* GetUserByIdRequests subscribing whether or not the profile is cached.
GetUserByIdRequestsAlways(m, id) == <<[fn |-> "listenToUser", arg |-> Some(id)]>>

\* getUserById(userId): the backend requests it makes.
\* if (!user) { _listenToPublicUserData(userId); }
GetUserByIdRequests(m, id) ==
  IF MapGet(m, id) = None THEN <<[fn |-> "listenToUser", arg |-> Some(id)]>> ELSE <<>>

GetUserById(id) ==
  /\ Observe("getUserById", Some(id), <<>>, GetUserByIdRequests(usersMap, id), <<>>,
             MapGet(usersMap, id))
  /\ listeners' =
       IF GetUserByIdRequests(usersMap, id) = <<>> THEN listeners ELSE listeners \cup {id}
  /\ UNCHANGED <<storeVars, hookVars, listening, createPending, delivered, feedHist>>

\* The callback _listenToPublicUserData gave to userDb.listenToUser: user is
\* None when the backend reports an error or no profile.
ListenDeliver(id, user) ==
  /\ id \in listeners
  /\ usersMap' = SavePublicUserInfo(usersMap, id, user)
  /\ delivered' = IF user = None THEN delivered ELSE delivered \cup {id}
  /\ Observe("listenDeliver", Some([id |-> id, user |-> user]), <<>>, <<>>, <<>>, None)
  /\ UNCHANGED <<userId, privateInfo, serverInfo, hookVars, listening, createPending,
                 listeners, feedHist>>

\* LogoutRequests with the two statements of logout() swapped: this.user is
\* read after userId was cleared.
LogoutRequestsAfterClear(st) ==
  <<[fn |-> "logout", arg |-> User([st EXCEPT !.userId = NULL])]>>

\* logout(): userDb.logout(this.user)
LogoutRequests(st) == <<[fn |-> "logout", arg |-> User(st)]>>

Logout ==
  /\ userId' = NULL
  /\ Observe("logout", None, <<>>, LogoutRequests(Store), <<>>, None)
  /\ UNCHANGED <<usersMap, privateInfo, serverInfo, hookVars, dbVars, feedHist>>

\* createUser(user, callback)
CreateUser(user) ==
  /\ IF InvalidCredentials(user)
     THEN /\ Observe("createUser", user, <<>>, <<>>,
                     <<[err |-> Some(ValidationError), res |-> None, usersMap |-> usersMap]>>,
                     None)
          /\ UNCHANGED createPending
     ELSE /\ createPending < MaxPending
          /\ createPending' = createPending + 1
          /\ Observe("createUser", user, <<>>,
                     <<[fn |-> "createUser", arg |-> user]>>, <<>>, None)
  /\ UNCHANGED <<storeVars, hookVars, listening, listeners, delivered, feedHist>>

\* The callback createUser gave to userDb.createUser, called with an error.
CreateUserFailed(err) ==
  /\ createPending > 0
  /\ createPending' = createPending - 1
  /\ Observe("createUserFailed", err, <<>>, <<>>,
             <<[err |-> err, res |-> None, usersMap |-> usersMap]>>, None)
  /\ UNCHANGED <<storeVars, hookVars, listening, listeners, delivered, feedHist>>

\* CreateUserSuccess with the caller's callback run before the save.
CreateUserSuccessCallbackFirst(st, data) ==
  [store |-> SaveCurrentUserLocally(st, data),
   call |-> [err |-> None, res |-> Some(data), usersMap |-> st.usersMap]]

\* The same callback, called with no error and the new user's data:
\* _saveCurrentUserLocally(userDataByPrivacy); callback(err, userDataByPrivacy).
\* Yields the store afterwards and the call made, with the cache as the
\* caller's callback finds it.
CreateUserSuccess(st, data) ==
  LET saved == SaveCurrentUserLocally(st, data)
  IN [store |-> saved,
      call |-> [err |-> None, res |-> Some(data), usersMap |-> saved.usersMap]]

CreateUserDone(data) ==
  /\ createPending > 0
  /\ createPending' = createPending - 1
  /\ SetStore(CreateUserSuccess(Store, data).store)
  /\ Observe("createUserDone", Some(data), <<>>, <<>>,
             <<CreateUserSuccess(Store, data).call>>, None)
  /\ UNCHANGED <<hookVars, listening, listeners, delivered, feedHist>>

\* _updateUser, the save capability of the cached profile under id.
StripHelpers(user) == [user EXCEPT !.save = FALSE, !.id = NULL, !.displayName = NULL]

\* The request _updateUser hands to the backend. The record is the cached
\* object itself, not a copy: arg is what it holds while the call is made
\* (helpers deleted), later is what the same object holds once _updateUser has
\* returned, _savePublicUserInfo having put the helpers back on it.
SaveRequest(uid, user) ==
  [fn |-> "saveToUsersCollection",
   arg |-> Some([id |-> uid, publicInfo |-> StripHelpers(user)]),
   later |-> Some([id |-> uid, publicInfo |-> Normalize(uid, StripHelpers(user))])]

UpdateUser(id) ==
  /\ MapHas(usersMap, id)
  /\ LET user == Val(MapGet(usersMap, id))
         uid == user.id
     IN /\ usersMap' = SavePublicUserInfo(usersMap, uid, Some(StripHelpers(user)))
        /\ Observe("save", Some(id), <<>>, <<SaveRequest(uid, user)>>, <<>>, None)
  /\ UNCHANGED <<userId, privateInfo, serverInfo, hookVars, dbVars, feedHist>>

\* ------------------------------------------------------------ search
\* The characters of the strings cached profiles hold.
Chars(s) ==
  CASE s = "u1" -> <<"u", "1">>
    [] s = "u2" -> <<"u", "2">>
    [] s = "u1@x.com" -> <<"u", "1", "@", "x", ".", "c", "o", "m">>
    [] s = "u2@x.com" -> <<"u", "2", "@", "x", ".", "c", "o", "m">>

\* String.prototype.toUpperCase over the characters in use.
UpperChar(c) ==
  CASE c = "u" -> "U" [] c = "x" -> "X" [] c = "c" -> "C"
    [] c = "o" -> "O" [] c = "m" -> "M" [] c = "y" -> "Y"
    [] OTHER -> c

ToUpperCase(s) == [i \in 1..Len(s) |-> UpperChar(s[i])]

\* String.prototype.includes
Includes(s, q) ==
  \E i \in 0..Len(s) : i + Len(q) <= Len(s) /\ SubSeq(s, i + 1, i + Len(q)) = q

\* user[field] with its typeof; a field the profile lacks is undefined.
FieldOf(user, field) ==
  CASE field \in {"email", "displayName", "id"} ->
         IF user[field] = NULL THEN [typeof |-> "object", chars |-> <<>>]
         ELSE [typeof |-> "string", chars |-> Chars(user[field])]
    [] field = "isOnline" -> [typeof |-> "boolean", chars |-> <<>>]
    [] field = "save" ->
         [typeof |-> IF user.save THEN "function" ELSE "undefined", chars |-> <<>>]
    [] OTHER -> [typeof |-> "undefined", chars |-> <<>>]

\* SearchMatches comparing the field with the query as typed.
SearchMatchesCaseSensitive(user, field, query) ==
  /\ FieldOf(user, field).typeof = "string"
  /\ Includes(FieldOf(user, field).chars, query)

\* user && typeof user[field] === "string" &&
\* user[field].toUpperCase().includes(query.toUpperCase())
SearchMatches(user, field, query) ==
  /\ FieldOf(user, field).typeof = "string"
  /\ Includes(ToUpperCase(FieldOf(user, field).chars), ToUpperCase(query))

\* The forEach over usersMap.entries(): results.push(user) for every match.
SearchResults(m, field, query) ==
  LET pushed[i \in 0..Len(m)] ==
        IF i = 0 THEN <<>>
        ELSE IF SearchMatches(m[i].value, field, query)
             THEN Append(pushed[i - 1], m[i].value)
             ELSE pushed[i - 1]
  IN pushed[Len(m)]

SearchFields == {"email", "id", "isOnline", "save", "phone"}

SearchQueries ==
  {<<>>, <<"u", "1">>, <<"U", "2">>, <<"X", ".", "c">>, <<"1", "@", "y">>,
   <<"u", "1", "@", "x", ".", "c", "o", "m", "m">>}

\* searchFromLocalUsersByField(field, query)
SearchFromLocalUsersByField(field, query) ==
  /\ Observe("search", Some([field |-> field, query |-> query]), <<>>, <<>>, <<>>,
             Some(SearchResults(usersMap, field, query)))
  /\ UNCHANGED <<storeVars, hookVars, dbVars, feedHist>>

\* ------------------------------------------------------- file watcher
\* What a step of the watcher records about itself.
WatchObserve(op, arg, calls) ==
  /\ ev' = [op |-> op, arg |-> arg]
  /\ handled' = calls
  /\ UNCHANGED <<hookCalls, dbCalls, cbCalls, ret>>
  /\ UNCHANGED <<storeVars, hookVars, dbVars, feedHist>>

\* The fs.watch listener, for an event of any watched directory.
WatchEvent(eventType, filePath) ==
  LET handle == ShouldHandle(fsTimeout, lastFileChanged, filePath)
  IN /\ handle => Len(timers) < MaxTimers
     /\ fsTimeout' = IF handle THEN "timer" ELSE fsTimeout
     /\ timers' = IF handle THEN Append(timers, now + DebounceMs) ELSE timers
     /\ lastFileChanged' = filePath
     /\ watchHist' =
          [p \in FilePaths |->
             IF p # filePath THEN [watchHist[p] EXCEPT !.undisturbed = FALSE]
             ELSE IF handle THEN [handledAt |-> Some(now), undisturbed |-> TRUE]
             ELSE watchHist[p]]
     /\ WatchObserve("watch", Some([eventType |-> eventType, filePath |-> filePath]),
                     IF handle THEN <<[eventType |-> eventType, filePath |-> filePath]>>
                     ELSE <<>>)
     /\ UNCHANGED now

\* function() { fsTimeout = null; } of the oldest timer, once it is due. No
\* timer is ever cleared, so every timer set fires.
TimerFires ==
  /\ timers # <<>>
  /\ Head(timers) <= now
  /\ fsTimeout' = NULL
  /\ timers' = Tail(timers)
  /\ WatchObserve("timer", None, <<>>)
  /\ UNCHANGED <<lastFileChanged, now, watchHist>>

\* Time passes; a timer that is due fires before the clock moves on.
TimePasses ==
  /\ timers # <<>> => Head(timers) > now
  /\ \E d \in Delays :
       /\ now + d <= MaxTime
       /\ now' = now + d
  /\ WatchObserve("tick", None, <<>>)
  /\ UNCHANGED <<fsTimeout, lastFileChanged, timers, watchHist>>

WatchNext ==
  \/ \E t \in EventTypes : \E f \in FilePaths : WatchEvent(t, f)
  \/ TimerFires
  \/ TimePasses

WatchSpec == Init /\ [][WatchNext]_vars

\* The store driven by the current-user feed alone, with callbacks registered
\* and the history of the feed recorded.
FeedNext ==
  \/ StoreInit
  \/ OnLogin
  \/ OnLogout
  \/ FeedError
  \/ FeedAbsentTracked
  \/ \E d \in Payloads : FeedDataTracked(d)

FeedSpec == Init /\ [][FeedNext]_vars

\* The session: the feed interleaved with logout() and createUser, with
\* callbacks registered.
SessionNext ==
  \/ StoreInit
  \/ OnLogin
  \/ OnLogout
  \/ FeedError
  \/ FeedAbsent
  \/ \E d \in Payloads : FeedData(d)
  \/ Logout
  \/ \E c \in Credentials : CreateUser(c)
  \/ \E e \in BackendErrors : CreateUserFailed(e)
  \/ \E d \in Payloads : CreateUserDone(d)

SessionSpec == Init /\ [][SessionNext]_vars

\* The feed interleaved with logout(), with callbacks registered.
LogoutNext ==
  \/ StoreInit
  \/ OnLogin
  \/ OnLogout
  \/ FeedError
  \/ FeedAbsent
  \/ \E d \in Payloads : FeedData(d)
  \/ Logout

LogoutSpec == Init /\ [][LogoutNext]_vars

\* Every operation on the store. No callback is registered: RunTriggers only
\* yields the calls made, so callbacks cannot change the store.
Next ==
  \/ StoreInit
  \/ FeedError
  \/ FeedAbsent
  \/ \E d \in Payloads : FeedData(d)
  \/ Logout
  \/ \E c \in Credentials : CreateUser(c)
  \/ \E e \in BackendErrors : CreateUserFailed(e)
  \/ \E d \in Payloads : CreateUserDone(d)
  \/ \E i \in Ids : GetUserById(i)
  \/ \E i \in Ids : \E u \in {None} \cup {Some(r) : r \in RawProfiles(i)} : ListenDeliver(i, u)
  \/ \E i \in Ids : UpdateUser(i)

Spec == Init /\ [][Next]_vars

\* The cache filled by the feed, by per-id subscriptions and by save, and
\* searched.
SearchNext ==
  \/ StoreInit
  \/ \E d \in Payloads : FeedData(d)
  \/ \E i \in Ids : GetUserById(i)
  \/ \E i \in Ids : \E u \in {None} \cup {Some(r) : r \in RawProfiles(i)} : ListenDeliver(i, u)
  \/ \E i \in Ids : UpdateUser(i)
  \/ \E f \in SearchFields : \E q \in SearchQueries : SearchFromLocalUsersByField(f, q)

SearchSpec == Init /\ [][SearchNext]_vars

\* ------------------------------------------------------------ claims
\* The callbacks of a hook list that the last step invoked exactly once.
InvokedOnce(hook, calls, cb) ==
  Cardinality({j \in 1..Len(calls) : calls[j].hook = hook /\ calls[j].cb = cb}) = 1

\* C1, as stated: currentUserId is non-null if and only if the most recently
\* applied payload carrying publicInfo had isOnline = true and no absence
\* signal was delivered after it.
C1_NonNullIffLastPublicOnline ==
  (userId # NULL) <=> (feedHist.lastPublic = "online" /\ ~feedHist.absentAfterPublic)

\* C1, amended: currentUserId is non-null if and only if some payload carrying
\* publicInfo with isOnline = true has been applied since the last absence
\* signal (since the start when there was none).
C1_NonNullIffOnlineSinceAbsent ==
  (userId # NULL) <=> feedHist.onlineSinceAbsent

\* An offline profile was the last one applied and the user is still current.
C1_Witness ==
  /\ userId # NULL
  /\ feedHist.lastPublic = "offline"
  /\ ~feedHist.absentAfterPublic

\* C2: a feed payload invokes each registered onLogin hook exactly once when
\* no current-user profile was cached and the payload carries an online public
\* profile, and invokes no hook otherwise.
C2_OnLoginOncePerTransition ==
  [][ev'.op = "feedData" =>
       LET d == Val(ev'.arg)
           transition ==
             /\ MapGet(usersMap, userId) = None
             /\ d.publicInfo # None
             /\ Val(d.publicInfo).isOnline
       IN IF transition
          THEN /\ Len(hookCalls') = Len(_onLoginTriggers)
               /\ \A i \in 1..Len(_onLoginTriggers) :
                    InvokedOnce("onLogin", hookCalls', _onLoginTriggers[i])
          ELSE hookCalls' = <<>>]_vars

\* C3: an absence signal that arrives while currentUserId is non-null invokes
\* each registered onLogout hook exactly once, with the composite view
\* {id, public, private, server} of the moment before the clearing; one that
\* arrives while currentUserId is null invokes none.
C3_OnLogoutOncePerAbsence ==
  [][ev'.op = "feedAbsent" =>
       IF userId # NULL
       THEN /\ Len(hookCalls') = Len(_onLogoutTriggers)
            /\ \A i \in 1..Len(_onLogoutTriggers) :
                 InvokedOnce("onLogout", hookCalls', _onLogoutTriggers[i])
            /\ \A j \in 1..Len(hookCalls') :
                 hookCalls'[j].arg =
                   [id |-> userId, public |-> MapGet(usersMap, userId),
                    private |-> privateInfo, server |-> serverInfo]
       ELSE hookCalls' = <<>>]_vars

\* C4: in one dispatch, when a callback throws, every callback registered
\* after it is still invoked.
C4_ThrowDoesNotStopDispatch ==
  \A j \in 1..Len(hookCalls) :
    hookCalls[j].threw =>
      LET triggers == IF hookCalls[j].hook = "onLogin"
                      THEN _onLoginTriggers ELSE _onLogoutTriggers
      IN \A i \in 1..Len(triggers) :
           triggers[i] > hookCalls[j].cb =>
             \E k \in 1..Len(hookCalls) : hookCalls[k].cb = triggers[i]

\* C5: whenever currentUserId changes from null to an id, the onLogin hooks
\* are dispatched for that user in the same step.
C5_LoginHooksOnAuthentication ==
  [][(userId = NULL /\ userId' # NULL /\ _onLoginTriggers # <<>>) =>
       /\ hookCalls' # <<>>
       /\ hookCalls'[1].hook = "onLogin"
       /\ hookCalls'[1].arg.id = userId']_vars

\* C6: createUser with credentials that are absent or lack a non-empty email
\* or a non-empty password invokes the callback exactly once with the
\* validation error, issues no backend request and leaves currentUserId, the
\* profile cache, privateInfo and serverInfo unchanged.
C6_LacksField(c) ==
  \/ c = None
  \/ Val(c).email = NULL \/ Val(c).email = ""
  \/ Val(c).password = NULL \/ Val(c).password = ""

C6_InvalidCredentialsRejected ==
  [][(ev'.op = "createUser" /\ C6_LacksField(ev'.arg)) =>
       /\ Len(cbCalls') = 1
       /\ cbCalls'[1].err = Some([message |-> "You must provide an email and password"])
       /\ cbCalls'[1].res = None
       /\ dbCalls' = <<>>
       /\ createPending' = createPending
       /\ UNCHANGED storeVars]_vars

\* createUser was called with an email and an empty password, and answered.
C6_Witness ==
  /\ ev.op = "createUser"
  /\ ev.arg = Some([email |-> "a@x.com", password |-> ""])
  /\ Len(cbCalls) = 1

\* C7: when the backend answers a createUser request with success, the
\* caller's callback is invoked with no error and the data, and finds the
\* returned public profile in the cache under the data's id, normalized; when
\* the backend answers with an error, the callback receives that error and
\* currentUserId, the cache, privateInfo and serverInfo are unchanged.
C7_CreateUserCompletion ==
  [][/\ ev'.op = "createUserDone" =>
          LET d == Val(ev'.arg)
          IN /\ Len(cbCalls') = 1
             /\ cbCalls'[1].err = None
             /\ cbCalls'[1].res = Some(d)
             /\ d.publicInfo # None =>
                  /\ MapHas(cbCalls'[1].usersMap, d.id)
                  /\ LET p == Val(MapGet(cbCalls'[1].usersMap, d.id))
                     IN /\ p.email = Val(d.publicInfo).email
                        /\ p.isOnline = Val(d.publicInfo).isOnline
                        /\ p.id = d.id
                        /\ p.displayName # NULL
                        /\ p.save
     /\ ev'.op = "createUserFailed" =>
          /\ Len(cbCalls') = 1
          /\ cbCalls'[1].err = ev'.arg
          /\ cbCalls'[1].err # None
          /\ cbCalls'[1].res = None
          /\ UNCHANGED storeVars]_vars

\* A createUser request succeeded with a public profile for an id that was
\* not cached before.
C7_Witness ==
  /\ ev.op = "createUserDone"
  /\ Val(ev.arg).publicInfo # None
  /\ Len(usersMap) = 1

\* C8: getUserById(id) for an id not in the cache returns absent and issues
\* exactly one listenToUser(id) request; once a listenToUser subscription has
\* delivered a profile for id, getUserById(id) returns the cached profile and
\* issues no request.
C8_GetUserByIdFetchesOnce ==
  [][\A i \in Ids :
       (ev'.op = "getUserById" /\ ev'.arg = Some(i)) =>
         /\ ~MapHas(usersMap, i) =>
              /\ ret' = None
              /\ dbCalls' = <<[fn |-> "listenToUser", arg |-> Some(i)]>>
         /\ i \in delivered =>
              /\ ret' # None
              /\ ret' = MapGet(usersMap, i)
              /\ dbCalls' = <<>>]_vars

\* getUserById was called for an id whose subscription had delivered a profile.
C8_Witness ==
  /\ ev.op = "getUserById"
  /\ Val(ev.arg) \in delivered
  /\ ret # None
  /\ dbCalls = <<>>

\* C9: while currentUserId is non-null, privateInfo and serverInfo are each
\* absent or data delivered for that same user.
C9_PrivateDataOfCurrentUser ==
  userId # NULL =>
    /\ privateInfo = None \/ Val(privateInfo).owner = userId
    /\ serverInfo = None \/ Val(serverInfo).owner = userId

\* C10, as stated: logout() issues exactly one backend logout request whose
\* argument is the composite view {id, public, private, server} of the moment
\* before the clearing, and currentUserId is null afterwards. Stated for a
\* logout() called while there is a current user.
C10_LogoutSendsFullUser ==
  [][(ev'.op = "logout" /\ userId # NULL) =>
       /\ dbCalls' =
            <<[fn |-> "logout",
               arg |-> Some([id |-> userId, public |-> MapGet(usersMap, userId),
                             private |-> privateInfo, server |-> serverInfo])]>>
       /\ userId' = NULL]_vars

\* C10, amended: logout() issues exactly one backend logout request whose
\* argument is the current user's public profile of the moment before the
\* clearing (absent when there is no current user), and currentUserId is null
\* afterwards.
C10_LogoutSendsPublicProfile ==
  [][ev'.op = "logout" =>
       /\ dbCalls' = <<[fn |-> "logout", arg |-> MapGet(usersMap, userId)]>>
       /\ userId' = NULL]_vars

\* logout() was called with a current user and sent that user's profile.
C10_Witness ==
  /\ ev.op = "logout"
  /\ Len(dbCalls) = 1
  /\ dbCalls[1].arg # None
  /\ userId = NULL

\* The fields _savePublicUserInfo injects into a cached profile.
C11_HasHelpers(user) == user.save /\ user.id # NULL /\ user.displayName # NULL

C11_NoHelpers(user) == ~user.save /\ user.id = NULL /\ user.displayName = NULL

\* C11: when the save capability of a cached profile is invoked, the record
\* handed to saveToUsersCollection carries none of the helper fields save, id
\* and displayName, neither while the call is made nor when the backend reads
\* the record later, and afterwards the cache entry of that id carries its id,
\* displayName and save again.
C11_BackendNeverSeesHelpers ==
  ev.op = "save" =>
    /\ Len(dbCalls) = 1
    /\ dbCalls[1].fn = "saveToUsersCollection"
    /\ Val(dbCalls[1].arg).id = Val(ev.arg)
    /\ C11_NoHelpers(Val(dbCalls[1].arg).publicInfo)
    /\ C11_NoHelpers(Val(dbCalls[1].later).publicInfo)
    /\ MapHas(usersMap, Val(ev.arg))
    /\ C11_HasHelpers(Val(MapGet(usersMap, Val(ev.arg))))

\* C12: a feed event carrying an error changes nothing, in whichever state it
\* arrives: currentUserId, the cache, privateInfo and serverInfo keep their
\* values, the hook lists are as they were, and no onLogin or onLogout hook is
\* invoked.
C12_FeedErrorChangesNothing ==
  [][ev'.op = "feedError" =>
       /\ UNCHANGED <<userId, usersMap, privateInfo, serverInfo>>
       /\ UNCHANGED <<_onLoginTriggers, _onLogoutTriggers>>
       /\ hookCalls' = <<>>]_vars

\* The error arrived while a user was current, with data in every slice and a
\* hook on each list.
C12_Witness ==
  /\ ev.op = "feedError"
  /\ userId # NULL
  /\ privateInfo # None
  /\ serverInfo # None
  /\ _onLoginTriggers # <<>>
  /\ _onLogoutTriggers # <<>>

\* C13: whatever feed events, createUser completions, per-id deliveries, save
\* and logout calls have happened, a non-null currentUserId always has an entry
\* in the cache, and in the step that assigned currentUserId that entry's
\* isOnline flag was true.
C13_CurrentUserIsCached ==
  [][userId' # NULL =>
       /\ MapHas(usersMap', userId')
       /\ userId' # userId => Val(MapGet(usersMap', userId')).isOnline]_vars

\* The entry of the current user has since been replaced by an offline profile.
C13_Witness ==
  /\ userId # NULL
  /\ MapHas(usersMap, userId)
  /\ ~Val(MapGet(usersMap, userId)).isOnline

\* The profile a step hands to _savePublicUserInfo and the key it hands it
\* with: the payload's publicInfo (feed, createUser), the per-id delivery, the
\* stripped object (save). None for a step that calls it with nothing or not
\* at all.
C14_Delivery(e, db) ==
  CASE e.op \in {"feedData", "createUserDone"} /\ Val(e.arg).publicInfo # None ->
         Some([key |-> Val(e.arg).id, user |-> Val(Val(e.arg).publicInfo)])
    [] e.op = "listenDeliver" /\ Val(e.arg).user # None ->
         Some([key |-> Val(e.arg).id, user |-> Val(Val(e.arg).user)])
    [] e.op = "save" ->
         Some([key |-> Val(e.arg), user |-> Val(db[1].arg).publicInfo])
    [] OTHER -> None

C14_InsertionPaths == {"feedData", "createUserDone", "listenDeliver", "save"}

\* C14, as stated: a profile stored under key k by any insertion path has
\* id = k and the delivered displayName when one was delivered, the profile's
\* email when none was; an absent delivery inserts nothing.
C14_DisplayNameDefaulted ==
  [][ev'.op \in C14_InsertionPaths =>
       LET d == C14_Delivery(ev', dbCalls')
       IN IF d = None THEN usersMap' = usersMap
          ELSE LET k == Val(d).key
                   given == Val(d).user
               IN /\ MapHas(usersMap', k)
                  /\ Val(MapGet(usersMap', k)).id = k
                  /\ Val(MapGet(usersMap', k)).displayName =
                       IF given.displayName # NULL THEN given.displayName
                       ELSE given.email]_vars

\* C14, amended: a profile stored under key k by any insertion path has id = k
\* and a displayName equal to its email, whether or not a displayName was
\* delivered; an absent delivery inserts nothing; so every entry of the cache
\* has its key as id and its email as displayName.
C14_DisplayNameIsEmail ==
  [][ev'.op \in C14_InsertionPaths =>
       LET d == C14_Delivery(ev', dbCalls')
       IN /\ IF d = None THEN usersMap' = usersMap
             ELSE LET k == Val(d).key
                      given == Val(d).user
                  IN /\ MapHas(usersMap', k)
                     /\ Val(MapGet(usersMap', k)).id = k
                     /\ Val(MapGet(usersMap', k)).email = given.email
                     /\ Val(MapGet(usersMap', k)).displayName = given.email
          /\ \A i \in 1..Len(usersMap') :
               /\ usersMap'[i].value.id = usersMap'[i].key
               /\ usersMap'[i].value.displayName = usersMap'[i].value.email]_vars

\* A profile delivered with a displayName of its own was stored with its
\* email as displayName.
C14_Witness ==
  /\ ev.op \in {"feedData", "createUserDone", "listenDeliver"}
  /\ C14_Delivery(ev, dbCalls) # None
  /\ Val(C14_Delivery(ev, dbCalls)).user.displayName = "nick"
  /\ Val(MapGet(usersMap, Val(C14_Delivery(ev, dbCalls)).key)).displayName = EmailOf("u2")

\* Folding to lower case, over the characters in use.
C15_LowerChar(c) ==
  CASE c = "U" -> "u" [] c = "X" -> "x" [] c = "C" -> "c"
    [] c = "O" -> "o" [] c = "M" -> "m" [] c = "Y" -> "y"
    [] OTHER -> c

C15_Fold(s) == [i \in 1..Len(s) |-> C15_LowerChar(s[i])]

\* s has q as a substring: s = a \o q \o b for some a and b.
C15_Contains(s, q) ==
  \E n \in 0..Len(s) : \E k \in n..Len(s) : SubSeq(s, n + 1, k) = q

\* The value of the named field is a string containing query, case ignored.
C15_Selected(user, field, query) ==
  /\ field \in {"email", "displayName", "id"}
  /\ user[field] # NULL
  /\ C15_Contains(C15_Fold(Chars(user[field])), C15_Fold(query))

C15_Select(user, args) == C15_Selected(user, args.field, args.query)

\* C15: searchFromLocalUsersByField(field, query) issues no backend request
\* and changes no state, and returns exactly the cached profiles whose value
\* for the named field is a string containing query as a case-insensitive
\* substring, in cache insertion order (the empty sequence when none match).
C15_SearchIsPureFilter ==
  [][ev'.op = "search" =>
       /\ dbCalls' = <<>>
       /\ hookCalls' = <<>>
       /\ UNCHANGED <<storeVars, hookVars, dbVars>>
       /\ ret' = Some(LET values == [i \in 1..Len(usersMap) |-> usersMap[i].value]
                          keep(u) == C15_Select(u, Val(ev'.arg))
                      IN SelectSeq(values, keep))]_vars

\* A query in mixed case found both cached profiles, the one inserted first
\* returned first.
C15_Witness ==
  /\ ev.op = "search"
  /\ Val(ev.arg).query = <<"X", ".", "c">>
  /\ Len(Val(ret)) = 2
  /\ Val(ret)[1].id = "u2"
  /\ Val(ret)[2].id = "u1"

C16_IsPrefix(s, t) == Len(s) <= Len(t) /\ SubSeq(t, 1, Len(s)) = s

C16_NoneThrew(calls) == \A i \in 1..Len(calls) : ~calls[i].threw

\* The callbacks of a dispatch, in the order they were invoked.
C16_Invoked(calls) == [i \in 1..Len(calls) |-> calls[i].cb]

\* C16: hook registrations accumulate and are never dropped, and a dispatch
\* in which no callback throws invokes every callback registered on its list
\* before the dispatch exactly once, in registration order.
C16_HooksAccumulateAndRunInOrder ==
  [][/\ C16_IsPrefix(_onLoginTriggers, _onLoginTriggers')
     /\ C16_IsPrefix(_onLogoutTriggers, _onLogoutTriggers')
     /\ ev'.op = "onLogin" => Len(_onLoginTriggers') = Len(_onLoginTriggers) + 1
     /\ ev'.op = "onLogout" => Len(_onLogoutTriggers') = Len(_onLogoutTriggers) + 1
     /\ (hookCalls' # <<>> /\ C16_NoneThrew(hookCalls')) =>
          /\ \A i \in 1..Len(hookCalls') : hookCalls'[i].hook = hookCalls'[1].hook
          /\ C16_Invoked(hookCalls') =
               IF hookCalls'[1].hook = "onLogin" THEN _onLoginTriggers
               ELSE _onLogoutTriggers]_vars

\* Two callbacks of one list were invoked, first registered first, none threw.
C16_Witness ==
  /\ Len(hookCalls) = 2
  /\ C16_NoneThrew(hookCalls)
  /\ hookCalls[1].hook = "onLogout"
  /\ hookCalls[1].cb # hookCalls[2].cb
  /\ hookCalls[1].cb = _onLogoutTriggers[1]

\* C17: neither logout() nor an absence signal changes privateInfo or
\* serverInfo, and a data payload that carries no privateInfo (no serverInfo)
\* leaves that slice as it was.
C17_SlicesSurviveLogout ==
  [][/\ ev'.op \in {"logout", "feedAbsent"} => UNCHANGED <<privateInfo, serverInfo>>
     /\ ev'.op \in {"feedData", "createUserDone"} =>
          /\ Val(ev'.arg).privateInfo = None => privateInfo' = privateInfo
          /\ Val(ev'.arg).serverInfo = None => serverInfo' = serverInfo]_vars

\* After a logout, a payload for another user without private or server data
\* left the previous user's slices in place.
C17_Witness ==
  /\ ev.op = "feedData"
  /\ Val(ev.arg).privateInfo = None
  /\ Val(ev.arg).serverInfo = None
  /\ userId = Val(ev.arg).id
  /\ privateInfo # None
  /\ Val(privateInfo).owner # userId
  /\ serverInfo # None

\* C18: logout() itself dispatches no onLogout hook and clears currentUserId
\* at once, so the absence signal the feed delivers afterwards, with no online
\* payload in between, dispatches none either: a session ended through
\* logout() runs the onLogout hooks zero times, whereas a session ended only by
\* an absence signal runs each of them once.
C18_LogoutSkipsOnLogoutHooks ==
  [][/\ ev'.op = "logout" => hookCalls' = <<>> /\ userId' = NULL
     /\ (ev.op = "logout" /\ ev'.op = "feedAbsent") => hookCalls' = <<>>
     /\ (userId = NULL /\ ev'.op = "feedAbsent") => hookCalls' = <<>>
     /\ (userId = NULL /\ userId' # NULL) =>
          /\ ev'.op = "feedData"
          /\ Val(ev'.arg).publicInfo # None
          /\ Val(Val(ev'.arg).publicInfo).isOnline
     /\ (userId # NULL /\ ev'.op = "feedAbsent") =>
          /\ Len(hookCalls') = Len(_onLogoutTriggers)
          /\ \A i \in 1..Len(_onLogoutTriggers) :
               InvokedOnce("onLogout", hookCalls', _onLogoutTriggers[i])]_vars

C19_SomeThrew(calls) == \E i \in 1..Len(calls) : calls[i].threw

\* C19: an exception thrown by a registered hook does not block the state
\* transition of the feed callback: after an absence signal whose onLogout
\* dispatch threw, currentUserId is null; after a data payload whose onLogin
\* dispatch threw, the payload's public profile is cached and currentUserId is
\* the payload's id when the profile is online.
C19_ThrowDoesNotBlockTransition ==
  /\ (ev.op = "feedAbsent" /\ C19_SomeThrew(hookCalls)) => userId = NULL
  /\ (ev.op = "feedData" /\ C19_SomeThrew(hookCalls)) =>
       LET d == Val(ev.arg)
       IN /\ d.publicInfo # None
          /\ MapGet(usersMap, d.id) = Some(Normalize(d.id, Val(d.publicInfo)))
          /\ Val(d.publicInfo).isOnline => userId = d.id

\* An onLogout callback threw and the user is gone.
C19_Witness ==
  /\ ev.op = "feedAbsent"
  /\ C19_SomeThrew(hookCalls)
  /\ userId = NULL

\* C20: once an event for a file path has been handled, a further event for
\* the same path that arrives less than 200 ms later, with no event for a
\* different path in between, is not handled again.
C20_DebouncedPerPath ==
  [][ev'.op = "watch" =>
       LET p == Val(ev'.arg).filePath
           h == watchHist[p]
       IN (/\ h.handledAt # None
           /\ h.undisturbed
           /\ now - Val(h.handledAt) < DebounceMs) => handled' = <<>>]_vars
====
